---------------------------- MODULE Spec2Model ----------------------------
(***************************************************************************)
(* The performance-management system of backend_fin.py and frontend.py:    *)
(* the memoized connection manager (get_db_connection), the query executor *)
(* (run_query) and the derived read and write operations, run against a    *)
(* PostgreSQL session reached through one psycopg2 connection.             *)
(*                                                                         *)
(* One action is one call of a derived operation, the executor calls it    *)
(* makes included.  The environment decides, per call, whether the open    *)
(* attempt succeeds and whether the connection is lost during one of the   *)
(* call's round trips (execute, commit, rollback).                         *)
(*                                                                         *)
(* Encoding of bind values: a value >= 0 is an integer; -1 stands for a    *)
(* value the integer column rejects (such as 'abc').  0 is an integer that *)
(* names no row (serial ids start at 1) and is falsy in Python.  Columns   *)
(* whose stored value no statement reads back or constrains (description,  *)
(* due_date, content, timestamp, and manager_id once its foreign key has   *)
(* been checked on insert) are left out of the rows.                       *)
(***************************************************************************)
EXTENDS Integers, Sequences, FiniteSets, TLC

\* Bounds of the model.
MaxEmployeeId == 2
MaxGoals == 1
MaxTasks == 1
MaxFeedback == 1

VARIABLES
    impl,      \* which program runs: "backend" (backend_fin.py) or "frontend"
    cache,     \* st.cache_resource's entry for get_db_connection: <<>> or <<v>>
    opens,     \* psycopg2.connect attempts made so far
    selfConn,  \* PMSBackend.conn: <<>> before __init__, <<v>> after
    closed,    \* the psycopg2 connection is broken (conn.closed # 0)
    txn,       \* the session's transaction status: "idle" or "open"
    db,        \* the committed content of the datastore
    last       \* the last call made and what it did

vars == <<impl, cache, opens, selfConn, closed, txn, db, last>>

None == 0

Statuses == {"In Progress", "Completed", "Cancelled"}

----------------------------------------------------------------------------
(* The datastore: schema constraints and the effect of each SQL template.  *)

IsInt(v) == v >= 0

\* The status column is an enumerated type.
StatusOk(s) == s \in Statuses

EmployeeExists(d, e) == e \in d.employee

GoalExists(d, g) == g \in DOMAIN d.goal

\* DELETE FROM goal is refused while a task or a feedback row references
\* the goal (no cascade rule: the datastore's default).
Referenced(d, g) ==
    \/ \E t \in DOMAIN d.task : d.task[t].goal_id = g
    \/ \E f \in DOMAIN d.feedback : d.feedback[f].goal_id = g

EmptyDb(emps) ==
    [employee |-> emps,
     goal |-> <<>>, task |-> <<>>, feedback |-> <<>>,
     goalSeq |-> 0, taskSeq |-> 0, feedbackSeq |-> 0]

\* f with key k bound to v (k may be new), and f without key k.
Put(f, k, v) == [x \in DOMAIN f \cup {k} |-> IF x = k THEN v ELSE f[x]]

Drop(f, k) == [x \in DOMAIN f \ {k} |-> f[x]]

Res(err, d, rows) == [err |-> err, db |-> d, rows |-> rows]

\* A SQL value of the aggregate AVG: NULL, or the rational num/den.
Null == [null |-> TRUE, num |-> 0, den |-> 1]

Num(n, d) == [null |-> FALSE, num |-> n, den |-> d]

Zero == Num(0, 1)

\* A statement: its template, its integer bind values and its status bind
\* value ("" when the template has none).
Stmt(sql, p, s) == [sql |-> sql, p |-> p, s |-> s]

IsSelect(s) ==
    s.sql \in {"select_goals", "select_tasks", "select_feedback",
               "status_counts", "avg_goals", "avg_goals_coalesce",
               "top_tasks", "top_feedback"}

GoalsOf(d, e) == {g \in DOMAIN d.goal : d.goal[g].employee_id = e}

TasksOf(d, e) == {t \in DOMAIN d.task : d.task[t].goal_id \in GoalsOf(d, e)}

FeedbackOf(d, e) ==
    {f \in DOMAIN d.feedback : d.feedback[f].goal_id \in GoalsOf(d, e)}

\* INSERT INTO goal (employee_id, manager_id, description, due_date, status).
\* The serial goal_id is drawn before the foreign keys are checked, and a
\* sequence is never rolled back.
InsertGoal(d, e, m, s) ==
    IF ~(IsInt(e) /\ IsInt(m) /\ StatusOk(s)) THEN Res("type", d, {})
    ELSE LET id == d.goalSeq + 1
             d1 == [d EXCEPT !.goalSeq = id]
         IN  IF ~(EmployeeExists(d, e) /\ EmployeeExists(d, m))
             THEN Res("fk", d1, {})
             ELSE Res("none",
                      [d1 EXCEPT !.goal =
                          Put(d.goal, id, [employee_id |-> e, status |-> s])],
                      {})

\* INSERT INTO task (goal_id, description); is_approved takes its default.
InsertTask(d, g) ==
    IF ~IsInt(g) THEN Res("type", d, {})
    ELSE LET id == d.taskSeq + 1
             d1 == [d EXCEPT !.taskSeq = id]
         IN  IF ~GoalExists(d, g) THEN Res("fk", d1, {})
             ELSE Res("none",
                      [d1 EXCEPT !.task =
                          Put(d.task, id, [goal_id |-> g, is_approved |-> FALSE])],
                      {})

\* INSERT INTO feedback (goal_id, manager_id, content).
InsertFeedback(d, g, m) ==
    IF ~(IsInt(g) /\ IsInt(m)) THEN Res("type", d, {})
    ELSE LET id == d.feedbackSeq + 1
             d1 == [d EXCEPT !.feedbackSeq = id]
         IN  IF ~(GoalExists(d, g) /\ EmployeeExists(d, m))
             THEN Res("fk", d1, {})
             ELSE Res("none",
                      [d1 EXCEPT !.feedback =
                          Put(d.feedback, id, [goal_id |-> g])],
                      {})

\* UPDATE goal SET status = %s WHERE goal_id = %s.
UpdateStatus(d, s, g) ==
    IF ~(StatusOk(s) /\ IsInt(g)) THEN Res("type", d, {})
    ELSE IF ~GoalExists(d, g) THEN Res("none", d, {})
    ELSE Res("none", [d EXCEPT !.goal[g].status = s], {})

\* UPDATE task SET is_approved = TRUE WHERE task_id = %s.
ApproveToggles(d, t) ==
    IF ~IsInt(t) THEN Res("type", d, {})
    ELSE IF t \notin DOMAIN d.task THEN Res("none", d, {})
    ELSE Res("none",
             [d EXCEPT !.task[t].is_approved = ~d.task[t].is_approved], {})

Approve(d, t) ==
    IF ~IsInt(t) THEN Res("type", d, {})
    ELSE IF t \notin DOMAIN d.task THEN Res("none", d, {})
    ELSE Res("none", [d EXCEPT !.task[t].is_approved = TRUE], {})

\* DELETE FROM goal WHERE goal_id = %s.
DeleteGoal(d, g) ==
    IF ~IsInt(g) THEN Res("type", d, {})
    ELSE IF ~GoalExists(d, g) THEN Res("none", d, {})
    ELSE IF Referenced(d, g) THEN Res("fk", d, {})
    ELSE Res("none", [d EXCEPT !.goal = Drop(d.goal, g)], {})

GoalRow(d, g) ==
    [goal_id |-> g, status |-> d.goal[g].status,
     employee_name |-> d.goal[g].employee_id]

\* SELECT ... FROM goal g JOIN employee e ON g.employee_id = e.employee_id,
\* with p = <<>> (no WHERE) or p = <<employee_id>>.
SelectGoals(d, p) ==
    LET joined == {g \in DOMAIN d.goal : EmployeeExists(d, d.goal[g].employee_id)}
    IN  IF p = <<>> THEN Res("none", d, {GoalRow(d, g) : g \in joined})
        ELSE IF ~IsInt(p[1]) THEN Res("type", d, {})
        ELSE Res("none", d,
                 {GoalRow(d, g) : g \in {x \in joined : d.goal[x].employee_id = p[1]}})

\* SELECT task_id, description, is_approved FROM task WHERE goal_id = %s.
SelectTasks(d, g) ==
    IF ~IsInt(g) THEN Res("type", d, {})
    ELSE Res("none", d,
             {[task_id |-> t, is_approved |-> d.task[t].is_approved] :
                 t \in {x \in DOMAIN d.task : d.task[x].goal_id = g}})

\* SELECT f.content, f.timestamp, g.description FROM feedback f JOIN goal g
\* ... WHERE g.employee_id = %s.  A row is named by the feedback row and the
\* goal it was joined from.
SelectFeedback(d, e) ==
    IF ~IsInt(e) THEN Res("type", d, {})
    ELSE Res("none", d,
             {[feedback_id |-> f, goal_id |-> d.feedback[f].goal_id] :
                 f \in FeedbackOf(d, e)})

\* SELECT status, COUNT(*) as total_goals FROM goal GROUP BY status.
StatusCounts(d) ==
    Res("none", d,
        {[status |-> s,
          total_goals |-> Cardinality({g \in DOMAIN d.goal : d.goal[g].status = s})] :
            s \in {d.goal[g].status : g \in DOMAIN d.goal}})

\* SELECT AVG(goal_count) FROM (SELECT COUNT(*) ... GROUP BY employee_id):
\* an aggregate without GROUP BY yields one row, NULL over no input rows.
AvgValue(d) ==
    LET groups == {d.goal[g].employee_id : g \in DOMAIN d.goal}
    IN  IF groups = {} THEN Null
        ELSE Num(Cardinality(DOMAIN d.goal), Cardinality(groups))

Coalesce(v, dflt) == IF v.null THEN dflt ELSE v

AvgGoals(d, coalesce) ==
    Res("none", d,
        {[avg |-> IF coalesce THEN Coalesce(AvgValue(d), Zero) ELSE AvgValue(d)]})

\* ... GROUP BY e.name ORDER BY total DESC LIMIT 1 over an inner join: no
\* row when the join is empty, else one row of a largest group (which one
\* of several tied groups is the datastore's choice).  n[e] is the number
\* of joined rows of employee e.
TopRow(d, n) ==
    LET groups == {e \in d.employee : n[e] > 0}
    IN  IF groups = {} THEN {}
        ELSE LET top == CHOOSE e \in groups : \A o \in groups : n[o] <= n[e]
             IN  {[name |-> top, total |-> n[top]]}

TopTasks(d) ==
    Res("none", d, TopRow(d, [e \in d.employee |-> Cardinality(TasksOf(d, e))]))

TopFeedback(d) ==
    Res("none", d, TopRow(d, [e \in d.employee |-> Cardinality(FeedbackOf(d, e))]))

\* What the datastore does with one statement.
Execute(d, s) ==
    CASE s.sql = "insert_goal"     -> InsertGoal(d, s.p[1], s.p[2], s.s)
      [] s.sql = "insert_task"     -> InsertTask(d, s.p[1])
      [] s.sql = "insert_feedback" -> InsertFeedback(d, s.p[1], s.p[2])
      [] s.sql = "update_status"   -> UpdateStatus(d, s.s, s.p[1])
      [] s.sql = "approve"         -> Approve(d, s.p[1])
      [] s.sql = "delete_goal"     -> DeleteGoal(d, s.p[1])
      [] s.sql = "select_goals"    -> SelectGoals(d, s.p)
      [] s.sql = "select_tasks"    -> SelectTasks(d, s.p[1])
      [] s.sql = "select_feedback" -> SelectFeedback(d, s.p[1])
      [] s.sql = "status_counts"   -> StatusCounts(d)
      [] s.sql = "avg_goals"       -> AvgGoals(d, FALSE)
      [] s.sql = "avg_goals_coalesce" -> AvgGoals(d, TRUE)
      [] s.sql = "top_tasks"       -> TopTasks(d)
      [] s.sql = "top_feedback"    -> TopFeedback(d)

----------------------------------------------------------------------------
(* The connection manager.                                                 *)

\* get_db_connection without the cache decorator: every call opens.
get_db_connection_uncached(w, openOk) ==
    LET v == IF openOk THEN w.opens + 1 ELSE None
    IN  [conn |-> v, cache |-> <<v>>, opens |-> w.opens + 1]

\* @st.cache_resource def get_db_connection(): the first call runs the body
\* (psycopg2.connect, or None when it raises) and stores what it returned;
\* later calls return the stored value.  A handle is named by the number of
\* the open attempt that made it.
get_db_connection(w, openOk) ==
    IF w.cache # <<>>
    THEN [conn |-> w.cache[1], cache |-> w.cache, opens |-> w.opens]
    ELSE LET v == IF openOk THEN w.opens + 1 ELSE None
         IN  [conn |-> v, cache |-> <<v>>, opens |-> w.opens + 1]

----------------------------------------------------------------------------
(* The query executor.  One operator per statement of run_query; each      *)
(* takes and returns the context c of the call in progress.                *)

Table(rows) == [kind |-> "table", ok |-> FALSE, rows |-> rows]

Bool(b) == [kind |-> "bool", ok |-> b, rows |-> {}]

Raise == [kind |-> "raise", ok |-> FALSE, rows |-> {}]

\* The environment of one executor call: whether an open attempt succeeds,
\* the round trip during which the connection is lost ("none", "execute",
\* "commit", "rollback"), and whether a commit whose reply was lost took
\* effect on the server.
Env(openOk, loss, applied) ==
    [openOk |-> openOk, loss |-> loss, applied |-> applied]

\* d's rows with the sequences of n: a rollback does not restore sequences.
KeepSeq(d, n) ==
    [d EXCEPT !.goalSeq = n.goalSeq, !.taskSeq = n.taskSeq,
              !.feedbackSeq = n.feedbackSeq]

\* The call's context on entry.  exc: an exception is in flight inside the
\* try block; escaped: an exception leaves run_query; work: the datastore
\* as the open transaction sees it.
Start(conn, w, stmt, fetch, env) ==
    [w |-> w, conn |-> conn, stmt |-> stmt, fetch |-> fetch, env |-> env,
     work |-> w.db, rows |-> {}, ret |-> Raise,
     exc |-> FALSE, escaped |-> FALSE, err |-> "none",
     cursor |-> FALSE, closes |-> 0, unbound |-> FALSE, executed |-> FALSE,
     rollback |-> "none", committed |-> FALSE, reported |-> FALSE,
     loss |-> "none"]

\* return pd.DataFrame() if fetch else False
NoConnReturnFalse(fetch) == Bool(FALSE)

NoConnReturn(fetch) == IF fetch THEN Table({}) ELSE Bool(FALSE)

\* if not conn: return ...
StepNoConn(c) == [c EXCEPT !.ret = NoConnReturn(c.fetch)]

\* cursor = conn.cursor(): raises on a connection known to be closed.
StepCursor(c) ==
    IF c.w.closed THEN [c EXCEPT !.exc = TRUE, !.err = "closed"]
    ELSE [c EXCEPT !.cursor = TRUE]

\* The datastore's answer x to the statement: an error aborts the
\* transaction, otherwise the transaction holds the statement's effect.
Answer(c, x) ==
    IF x.err # "none"
    THEN [c EXCEPT !.exc = TRUE, !.err = x.err, !.executed = TRUE,
                   !.work = x.db, !.w.txn = "aborted"]
    ELSE [c EXCEPT !.executed = TRUE, !.work = x.db, !.rows = x.rows,
                   !.w.txn = "open"]

\* cursor.execute(query, params): the first statement after a commit or a
\* rollback opens a transaction.  A lost connection ends the session and
\* its transaction, and marks the handle closed.
StepExecute(c) ==
    IF c.exc THEN c
    ELSE IF c.env.loss = "execute"
    THEN [c EXCEPT !.exc = TRUE, !.err = "lost", !.loss = "execute",
                   !.w.closed = TRUE, !.w.txn = "idle"]
    ELSE IF c.w.txn = "aborted"
    THEN [c EXCEPT !.exc = TRUE, !.err = "aborted", !.executed = TRUE]
    ELSE Answer(c, Execute(c.w.db, c.stmt))

\* if fetch: cols = [... cursor.description]; data = cursor.fetchall();
\* return pd.DataFrame(data, columns=cols).  cursor.description is None
\* after a statement that returns no rows.
StepFetch(c) ==
    IF c.exc \/ ~c.fetch THEN c
    ELSE IF ~IsSelect(c.stmt) THEN [c EXCEPT !.exc = TRUE, !.err = "description"]
    ELSE [c EXCEPT !.ret = Table(c.rows)]

\* else: conn.commit(); return True
StepCommit(c) ==
    IF c.exc \/ c.fetch THEN c
    ELSE IF c.env.loss = "commit"
    THEN [c EXCEPT !.exc = TRUE, !.err = "lost", !.loss = "commit",
                   !.w.closed = TRUE, !.w.txn = "idle",
                   !.w.db = IF c.env.applied THEN c.work
                            ELSE KeepSeq(c.w.db, c.work)]
    ELSE [c EXCEPT !.w.db = c.work, !.w.txn = "idle", !.committed = TRUE,
                   !.ret = Bool(TRUE)]

\* return False
HandlerReturnTrue(fetch) == Bool(TRUE)

HandlerReturn(fetch) == Bool(FALSE)

\* except Exception as e: conn.rollback(); st.error(...); return False.
\* conn.rollback() raises on a closed connection, and that exception
\* leaves run_query.
StepExcept(c) ==
    IF ~c.exc THEN c
    ELSE IF c.w.closed
    THEN [c EXCEPT !.rollback = "raised", !.escaped = TRUE]
    ELSE IF c.env.loss = "rollback"
    THEN [c EXCEPT !.rollback = "raised", !.escaped = TRUE,
                   !.loss = "rollback", !.w.closed = TRUE, !.w.txn = "idle",
                   !.w.db = KeepSeq(c.w.db, c.work)]
    ELSE [c EXCEPT !.rollback = "ok", !.exc = FALSE, !.reported = TRUE,
                   !.w.txn = "idle", !.w.db = KeepSeq(c.w.db, c.work),
                   !.ret = HandlerReturn(c.fetch)]

\* finally: cursor.close().  When conn.cursor() raised, the name cursor is
\* unbound and the finally clause raises in its turn.
StepFinally(c) ==
    IF c.cursor THEN [c EXCEPT !.closes = c.closes + 1]
    ELSE [c EXCEPT !.unbound = TRUE, !.escaped = TRUE]

\* What the call leaves: the new state, what it returned (or that it
\* raised) and the record of what it did.
Finish(c) ==
    [w |-> c.w,
     ret |-> IF c.escaped THEN Raise ELSE c.ret,
     t |-> [sql |-> c.stmt.sql, fetch |-> c.fetch, conn |-> c.conn,
            ret |-> IF c.escaped THEN Raise ELSE c.ret,
            cursor |-> c.cursor, closes |-> c.closes, unbound |-> c.unbound,
            executed |-> c.executed, err |-> c.err, rollback |-> c.rollback,
            committed |-> c.committed, reported |-> c.reported,
            loss |-> c.loss, txnAfter |-> c.w.txn, closedAfter |-> c.w.closed]]

\* The body of run_query on handle conn.
run_query_on(conn, w, stmt, fetch, env) ==
    IF conn = None
    THEN Finish(StepNoConn(Start(conn, w, stmt, fetch, env)))
    ELSE Finish(StepFinally(StepExcept(StepCommit(StepFetch(StepExecute(
             StepCursor(Start(conn, w, stmt, fetch, env))))))))

\* frontend.py: conn = get_db_connection() opens run_query.
Connected(w, g) == [conn |-> g.conn, w |-> [w EXCEPT !.cache = g.cache, !.opens = g.opens]]

frontend_run_query(cw, stmt, fetch, env) ==
    run_query_on(cw.conn, cw.w, stmt, fetch, env)

\* run_query of either program: frontend.py asks the connection manager on
\* every call, backend_fin.py uses the handle __init__ stored in self.conn.
run_query(im, self, w, stmt, fetch, env) ==
    IF im = "frontend"
    THEN frontend_run_query(Connected(w, get_db_connection(w, env.openOk)),
                            stmt, fetch, env)
    ELSE run_query_on(self, w, stmt, fetch, env)

----------------------------------------------------------------------------
(* The derived operations.  Each yields the new state, what the operation  *)
(* returned, and the record of every executor call it made.                *)

Omitted == ""

NoInsights == [avg |-> Null, goal_status |-> {}, productive_na |-> FALSE,
               feedback_na |-> FALSE]

Outcome(r) == [w |-> r.w, ret |-> r.ret, ins |-> NoInsights, calls |-> <<r.t>>]

One(im, self, w, stmt, fetch, env) ==
    Outcome(run_query(im, self, w, stmt, fetch, env))

\* def create_goal(..., status='In Progress')
DefaultStatusCompleted(s) == IF s = Omitted THEN "Completed" ELSE s

DefaultStatus(s) == IF s = Omitted THEN "In Progress" ELSE s

create_goal(im, self, w, e, m, s, env) ==
    One(im, self, w, Stmt("insert_goal", <<e, m>>, DefaultStatus(s)), FALSE, env)

create_task(im, self, w, g, env) ==
    One(im, self, w, Stmt("insert_task", <<g>>, ""), FALSE, env)

create_feedback(im, self, w, g, m, env) ==
    One(im, self, w, Stmt("insert_feedback", <<g, m>>, ""), FALSE, env)

\* if employee_id: a falsy argument (None, 0) selects no filter.
get_goals(im, self, w, p, env) ==
    One(im, self, w,
        Stmt("select_goals", IF p # <<>> /\ p[1] # 0 THEN p ELSE <<>>, ""),
        TRUE, env)

get_tasks(im, self, w, g, env) ==
    One(im, self, w, Stmt("select_tasks", <<g>>, ""), TRUE, env)

get_feedback(im, self, w, e, env) ==
    One(im, self, w, Stmt("select_feedback", <<e>>, ""), TRUE, env)

update_goal_status(im, self, w, g, s, env) ==
    One(im, self, w, Stmt("update_status", <<g>>, s), FALSE, env)

approve_task(im, self, w, t, env) ==
    One(im, self, w, Stmt("approve", <<t>>, ""), FALSE, env)

delete_goal(im, self, w, g, env) ==
    One(im, self, w, Stmt("delete_goal", <<g>>, ""), FALSE, env)

\* get_business_insights in progress: s.alive until a step raises, s.ret
\* the latest executor result, s.ins the insights gathered so far.
Begin(w) ==
    [w |-> w, calls |-> <<>>, ret |-> Table({}), alive |-> TRUE,
     ins |-> [avg |-> Zero, goal_status |-> {}, productive_na |-> TRUE,
              feedback_na |-> TRUE]]

Called(s, r) ==
    [s EXCEPT !.w = r.w, !.calls = Append(s.calls, r.t), !.ret = r.ret,
              !.alive = r.ret.kind # "raise"]

\* One more executor call, in fetch mode, unless an earlier step raised.
\* The connection is lost during the execute of call number lossAt (0: it
\* is not lost).
Call(im, self, s, sql, openOk, lossAt) ==
    IF ~s.alive THEN s
    ELSE Called(s, run_query(im, self, s.w, Stmt(sql, <<>>, ""), TRUE,
                             Env(openOk,
                                 IF Len(s.calls) + 1 = lossAt THEN "execute"
                                 ELSE "none",
                                 FALSE)))

\* result.empty is an AttributeError when the executor returned False.
Empty(s) ==
    IF s.alive /\ s.ret.kind # "table" THEN [s EXCEPT !.alive = FALSE] ELSE s

\* result.iloc[0, 0]: the first column of the first row.
Cell(rows) == (CHOOSE r \in rows : TRUE).avg

\* insights['goal_status'] = run_query(query1)
SetGoalStatus(s) ==
    IF s.alive THEN [s EXCEPT !.ins.goal_status = s.ret.rows] ELSE s

\* insights['avg_goals_per_employee'] =
\*     result.iloc[0, 0] if not result.empty else 0
SetAvg(s) ==
    IF s.alive
    THEN [s EXCEPT !.ins.avg = IF s.ret.rows # {} THEN Cell(s.ret.rows) ELSE Zero]
    ELSE s

\* ... = self.run_query(query2).iloc[0, 0]
\*       if not self.run_query(query2).empty else 0
\* s follows the call made for .empty; when that result has rows the query
\* runs once more for .iloc[0, 0], an AttributeError on False and an
\* IndexError on an empty table.
SetAvgFrom(s) ==
    IF ~s.alive THEN s
    ELSE IF s.ret.kind # "table" \/ s.ret.rows = {} THEN [s EXCEPT !.alive = FALSE]
    ELSE [s EXCEPT !.ins.avg = Cell(s.ret.rows)]

AvgAgain(self, s, lossAt) ==
    IF s.alive /\ s.ret.rows # {}
    THEN SetAvgFrom(Call("backend", self, s, "avg_goals", TRUE, lossAt))
    ELSE s

\* insights['most_productive_employee'] =
\*     df_tasks.iloc[0, 0] if not df_tasks.empty else "N/A"
SetProductive(s) ==
    IF s.alive THEN [s EXCEPT !.ins.productive_na = s.ret.rows = {}] ELSE s

SetFeedback(s) ==
    IF s.alive THEN [s EXCEPT !.ins.feedback_na = s.ret.rows = {}] ELSE s

\* return insights
Insights(s) ==
    [w |-> s.w,
     ret |-> IF s.alive THEN [kind |-> "insights", ok |-> FALSE, rows |-> {}]
             ELSE Raise,
     ins |-> IF s.alive THEN s.ins ELSE NoInsights,
     calls |-> s.calls]

\* frontend.py: get_business_insights()
frontend_get_business_insights(w, openOk, lossAt) ==
    Insights(
      SetFeedback(Empty(Call("frontend", None,
        SetProductive(Empty(Call("frontend", None,
          SetAvg(Empty(Call("frontend", None,
            SetGoalStatus(Call("frontend", None, Begin(w),
                               "status_counts", openOk, lossAt)),
            "avg_goals_coalesce", openOk, lossAt))),
          "top_tasks", openOk, lossAt))),
        "top_feedback", openOk, lossAt))))

\* backend_fin.py: PMSBackend.get_business_insights()
backend_get_business_insights(self, w, lossAt) ==
    Insights(
      SetFeedback(Empty(Call("backend", self,
        SetProductive(Empty(Call("backend", self,
          AvgAgain(self,
            Empty(Call("backend", self,
              SetGoalStatus(Call("backend", self, Begin(w),
                                 "status_counts", TRUE, lossAt)),
              "avg_goals", TRUE, lossAt)),
            lossAt),
          "top_tasks", TRUE, lossAt))),
        "top_feedback", TRUE, lossAt))))

----------------------------------------------------------------------------
(* The state machine: one action per operation.                            *)

W == [cache |-> cache, opens |-> opens, closed |-> closed, txn |-> txn, db |-> db]

Self == IF selfConn = <<>> THEN None ELSE selfConn[1]

\* backend_fin.py's operations are methods of a constructed PMSBackend.
Ready == impl = "frontend" \/ selfConn # <<>>

\* Bind values tried for an employee or manager id, a goal id and a task
\* id: not an integer (-1), an integer naming no row (0), and the ids the
\* bounds allow.
EmployeeInputs == (-1) .. MaxEmployeeId

GoalInputs == (-1) .. MaxGoals

TaskInputs == (-1) .. MaxTasks

StatusInputs == Statuses \cup {"Bogus"}

OpenOks == IF cache = <<>> THEN BOOLEAN ELSE {TRUE}

WriteEnvs ==
    {Env(o, l[1], l[2]) :
        o \in OpenOks,
        l \in {<<"none", FALSE>>, <<"execute", FALSE>>, <<"commit", FALSE>>,
               <<"commit", TRUE>>, <<"rollback", FALSE>>}}

ReadEnvs ==
    {Env(o, l, FALSE) : o \in OpenOks, l \in {"none", "execute", "rollback"}}

\* What is kept of a call: the operation, the handle it used, what it
\* returned and the record of each executor call it made.
Record(op, o) ==
    [op |-> op, conn |-> o.calls[Len(o.calls)].conn, ret |-> o.ret,
     ins |-> o.ins, calls |-> o.calls]

Apply(op, o) ==
    /\ cache' = o.w.cache
    /\ opens' = o.w.opens
    /\ closed' = o.w.closed
    /\ txn' = o.w.txn
    /\ db' = o.w.db
    /\ last' = Record(op, o)
    /\ UNCHANGED <<impl, selfConn>>

Init ==
    /\ impl \in {"backend", "frontend"}
    /\ cache = <<>>
    /\ opens = 0
    /\ selfConn = <<>>
    /\ closed = FALSE
    /\ txn = "idle"
    /\ \E k \in 1 .. MaxEmployeeId : db = EmptyDb(1 .. k)
    /\ last = [op |-> "none", conn |-> None, ret |-> Bool(FALSE),
               ins |-> NoInsights, calls |-> <<>>]

\* PMSBackend.__init__: self.conn = get_db_connection()
NewBackend ==
    /\ impl = "backend"
    /\ \E openOk \in OpenOks :
        LET g == get_db_connection(W, openOk)
        IN  /\ selfConn' = <<g.conn>>
            /\ cache' = g.cache
            /\ opens' = g.opens
            /\ last' = [op |-> "init", conn |-> g.conn, ret |-> Bool(FALSE),
                        ins |-> NoInsights, calls |-> <<>>]
    /\ UNCHANGED <<impl, closed, txn, db>>

CreateGoal ==
    /\ Ready
    /\ db.goalSeq < MaxGoals
    /\ \E e \in EmployeeInputs \ {0}, m \in EmployeeInputs \ {0},
          s \in {Omitted, "Completed", "Bogus"}, env \in WriteEnvs :
        Apply("create_goal", create_goal(impl, Self, W, e, m, s, env))

CreateTask ==
    /\ Ready
    /\ db.taskSeq < MaxTasks
    /\ \E g \in GoalInputs, env \in WriteEnvs :
        Apply("create_task", create_task(impl, Self, W, g, env))

CreateFeedback ==
    /\ Ready
    /\ db.feedbackSeq < MaxFeedback
    /\ \E g \in GoalInputs, m \in EmployeeInputs, env \in WriteEnvs :
        Apply("create_feedback", create_feedback(impl, Self, W, g, m, env))

GetGoals ==
    /\ Ready
    /\ \E p \in {<<>>} \cup {<<e>> : e \in EmployeeInputs}, env \in ReadEnvs :
        Apply("get_goals", get_goals(impl, Self, W, p, env))

GetTasks ==
    /\ Ready
    /\ \E g \in GoalInputs, env \in ReadEnvs :
        Apply("get_tasks", get_tasks(impl, Self, W, g, env))

GetFeedback ==
    /\ Ready
    /\ \E e \in EmployeeInputs, env \in ReadEnvs :
        Apply("get_feedback", get_feedback(impl, Self, W, e, env))

UpdateGoalStatus ==
    /\ Ready
    /\ \E g \in GoalInputs, s \in StatusInputs, env \in WriteEnvs :
        Apply("update_goal_status", update_goal_status(impl, Self, W, g, s, env))

ApproveTask ==
    /\ Ready
    /\ \E t \in TaskInputs, env \in WriteEnvs :
        Apply("approve_task", approve_task(impl, Self, W, t, env))

DeleteGoal_ ==
    /\ Ready
    /\ \E g \in GoalInputs, env \in WriteEnvs :
        Apply("delete_goal", delete_goal(impl, Self, W, g, env))

GetBusinessInsights ==
    /\ Ready
    /\ \E openOk \in OpenOks, lossAt \in 0 .. 5 :
        Apply("get_business_insights", IF impl = "frontend"
              THEN frontend_get_business_insights(W, openOk, lossAt)
              ELSE backend_get_business_insights(Self, W, lossAt))

Next ==
    \/ NewBackend
    \/ CreateGoal
    \/ CreateTask
    \/ CreateFeedback
    \/ GetGoals
    \/ GetTasks
    \/ GetFeedback
    \/ UpdateGoalStatus
    \/ ApproveTask
    \/ DeleteGoal_
    \/ GetBusinessInsights

Spec == Init /\ [][Next]_vars

----------------------------------------------------------------------------
(* Properties.                                                             *)

WriteOps == {"create_goal", "create_task", "create_feedback",
             "update_goal_status", "approve_task", "delete_goal"}

\* The rows of the tables a read can return.
Rows(d) == <<d.employee, d.goal, d.task, d.feedback>>

\* A call in which the connection is opened and is not lost.
OkEnv == Env(TRUE, "none", FALSE)

\* The program can reach the datastore: the connection is not broken, and
\* the connection manager holds a handle or has not been asked yet.
CanConnect == Ready /\ ~closed /\ (cache = <<>> \/ cache[1] # None)

Sentinel(fetch) == IF fetch THEN Table({}) ELSE Bool(FALSE)

\* C1: no executor call raises: every call made ends by returning a table
\* or a boolean.
C1_NeverRaises ==
    \A i \in DOMAIN last.calls : last.calls[i].ret.kind \in {"table", "bool"}

\* C2: an executor call whose statement failed (a type or foreign-key
\* error with the connection up throughout, or the connection lost during
\* execute) rolled back, reported the error and returned an empty table in
\* fetch mode, False in write mode.
C2_FailureSentinelByMode ==
    \A i \in DOMAIN last.calls :
        LET t == last.calls[i]
        IN  ((t.err \in {"type", "fk"} /\ t.loss = "none") \/ t.loss = "execute")
            => /\ t.rollback = "ok"
               /\ t.reported
               /\ t.ret = Sentinel(t.fetch)

\* C3: an executor call made with no handle (None) returns an empty table
\* in fetch mode and False in write mode, acquires no cursor, executes no
\* statement, neither commits nor rolls back, and leaves the datastore and
\* the transaction status as they were.
C3_UnavailableDegrades ==
    [][\A i \in DOMAIN last'.calls :
          LET t == last'.calls[i]
          IN  t.conn = None
              => /\ t.ret = Sentinel(t.fetch)
                 /\ ~t.cursor /\ ~t.executed /\ ~t.committed
                 /\ t.rollback = "none" /\ ~t.unbound
                 /\ db' = db /\ txn' = txn /\ closed' = closed]_vars

C3_Witness ==
    /\ last.op = "get_tasks"
    /\ last.calls[1].conn = None
    /\ last.ret = Table({})

\* C4: a write operation whose statement the datastore refuses with a
\* foreign-key or type error, the connection staying up, returns False and
\* leaves every table's rows as they were before the call.
C4_RefusedWriteChangesNothing ==
    [][(/\ last'.op \in WriteOps
        /\ last'.calls[1].err \in {"fk", "type"}
        /\ last'.calls[1].loss = "none")
       => /\ last'.ret = Bool(FALSE)
          /\ Rows(db') = Rows(db)
          /\ SelectGoals(db', <<>>).rows = SelectGoals(db, <<>>).rows]_vars

C4_Witness ==
    /\ last.op = "delete_goal"
    /\ last.calls[1].err = "fk"
    /\ last.ret = Bool(FALSE)
    /\ db.goal # <<>>
    /\ db.task # <<>>

\* C5: the connection is opened at most once: the first call of
\* get_db_connection makes the only open attempt and its result is stored;
\* from then on the stored result never changes, no further attempt is
\* made, and every call uses the stored result.
C5_OpenedOnce ==
    [][/\ opens' <= 1
       /\ (cache = <<>> /\ cache' # <<>>) => (opens' = 1 /\ last'.conn = cache'[1])
       /\ cache # <<>> => /\ cache' = cache
                          /\ opens' = opens
                          /\ last'.conn = cache[1]]_vars

C5_Witness ==
    /\ impl = "frontend"
    /\ last.op = "get_business_insights"
    /\ Len(last.calls) = 4
    /\ cache = <<None>>
    /\ opens = 1

\* C6: every executor call that acquired a cursor closed it exactly once,
\* and no call tried to close a cursor it never acquired.
C6_CursorReleased ==
    \A i \in DOMAIN last.calls :
        LET t == last.calls[i]
        IN  /\ t.cursor => t.closes = 1
            /\ ~t.cursor => (t.closes = 0 /\ ~t.unbound)

\* C7: get_business_insights on a store with zero goals returns 0 for
\* avg_goals_per_employee, in either program.
C7_AvgZeroWithoutGoals ==
    (last.op = "get_business_insights" /\ last.ret.kind = "insights"
     /\ DOMAIN db.goal = {})
    => last.ins.avg = Zero

\* C10: when an executor call ends, the session has no transaction open.
C10_NoTransactionLeftOpen ==
    \A i \in DOMAIN last.calls : last.calls[i].txnAfter = "idle"

\* The goal lifecycle run from the current state: create_goal(1, 2, ...)
\* with no status given, get_goals(), update_goal_status(id, "Completed"),
\* get_goals(), delete_goal(id), get_goals(), the connection staying up.
\* Each write returns True; the reads return one row with status
\* "In Progress", then that row with status "Completed", then no row.
LifecycleHolds ==
    LET c  == create_goal(impl, Self, W, 1, 2, Omitted, OkEnv)
        r1 == get_goals(impl, Self, c.w, <<>>, OkEnv)
        id == (CHOOSE r \in r1.ret.rows : TRUE).goal_id
        u  == update_goal_status(impl, Self, r1.w, id, "Completed", OkEnv)
        r2 == get_goals(impl, Self, u.w, <<>>, OkEnv)
        d  == delete_goal(impl, Self, r2.w, id, OkEnv)
        r3 == get_goals(impl, Self, d.w, <<>>, OkEnv)
    IN  /\ c.ret = Bool(TRUE)
        /\ r1.ret.kind = "table"
        /\ Cardinality(r1.ret.rows) = 1
        /\ \A r \in r1.ret.rows : r.status = "In Progress"
        /\ u.ret = Bool(TRUE)
        /\ r2.ret = Table({[goal_id |-> id, status |-> "Completed",
                            employee_name |-> 1]})
        /\ d.ret = Bool(TRUE)
        /\ r3.ret = Table({})

\* C8 as stated: from every state with employee 1 and no goal, the
\* lifecycle holds.
C8_LifecycleFromEmployee1 ==
    (CanConnect /\ 1 \in db.employee /\ DOMAIN db.goal = {}) => LifecycleHolds

\* C8 amended: from every state with employee 1, the manager 2 that the
\* goal's manager reference names, and no goal, the lifecycle holds.
C8_Lifecycle ==
    (CanConnect /\ {1, 2} \subseteq db.employee /\ DOMAIN db.goal = {})
    => LifecycleHolds

C8_Witness ==
    /\ CanConnect
    /\ {1, 2} \subseteq db.employee
    /\ last.op = "delete_goal"
    /\ last.ret = Bool(TRUE)
    /\ db.goalSeq = 1
    /\ DOMAIN db.goal = {}

\* C9: in every step a task that was approved and still exists stays
\* approved; and, the connection staying up, approve_task on any task
\* returns True, approve_task again returns True and changes nothing, and
\* approve_task on an approved task leaves the store as it was.
C9_ApprovalOneWay ==
    [][/\ \A t \in DOMAIN db.task \cap DOMAIN db'.task :
            db.task[t].is_approved => db'.task[t].is_approved
       /\ CanConnect =>
            \A t \in DOMAIN db.task :
                LET o1 == approve_task(impl, Self, W, t, OkEnv)
                    o2 == approve_task(impl, Self, o1.w, t, OkEnv)
                IN  /\ o1.ret = Bool(TRUE)
                    /\ o2.ret = Bool(TRUE)
                    /\ o1.w.db.task[t].is_approved
                    /\ o2.w.db = o1.w.db
                    /\ db.task[t].is_approved => o1.w.db = db]_vars

C9_Witness ==
    /\ CanConnect
    /\ last.op = "approve_task"
    /\ last.ret = Bool(TRUE)
    /\ \E t \in DOMAIN db.task : db.task[t].is_approved

=============================================================================
